---- MODULE Spec2Model ----
(***************************************************************************)
(* A model of the smart-city core: the security gate (check_security and   *)
(* its rate-limit ledger), the user directory with the Fiat and Crypto     *)
(* banking services, the command slot of the CityController, its observer  *)
(* registry and its log buffer.                                            *)
(*                                                                         *)
(* Strings are sequences of lexemes: a lexeme is a run of characters that  *)
(* the sanitizer treats as a unit (a dangerous token, a quote, a run of    *)
(* harmless characters), and carries its width in characters.              *)
(* Amounts are integers (the currency unit).                               *)
(***************************************************************************)
EXTENDS Integers, Sequences, FiniteSets, TLC

VARIABLES
    now,               \* time.time(), in seconds
    request_history,   \* config.request_history: identity -> timestamps
    authorized_users,  \* Login.authorized_users = CityController.user_db_ref
    observers,         \* CityController.observers
    logs,              \* CityController.logs
    current_command,   \* CityController.current_command: <<>> or <<cmd>>
    nextOid,           \* the next object identity (observers are objects)
    logCalls,          \* history: number of CityController.log calls so far
    accepted,          \* history: identity -> times of its accepted requests
    lastSet,           \* history: the argument of the last set_command
    replaced,          \* history: the unexecuted command that call overwrote
    slotRuns,          \* history: execute_command runs since that set_command
    threads,           \* the email-report worker threads and their locals
    last               \* what the last operation was given and returned

vars == <<now, request_history, authorized_users, observers, logs,
          current_command, nextOid, logCalls, accepted, lastSet, replaced,
          slotRuns, threads, last>>

gateVars == <<now, request_history, accepted, threads>>
bankVars == <<authorized_users>>
slotVars == <<current_command, lastSet, replaced, slotRuns>>
obsVars == <<observers, nextOid>>
logVars == <<logs, logCalls>>

----------------------------------------------------------------------------
(* Bounds of the model *)

MaxTime == 60
MaxHist == 2
MaxObservers == 6
MaxLogCalls == 5003
MaxRuns == 2
MaxFanout == 4
MaxNotify == 1
MaxHomeLog == 1003
MaxAdmin == 5100
MaxWorkers == 2
MaxReports == 6
MaxReportLog == 1
MaxDepth == 3
MaxOid == 7

(* Program constants *)

MAX_INPUT_LENGTH == 3000
RATE_LIMIT_WINDOW == 60
MAX_REQUESTS_PER_WINDOW == 5
LOAD_LIMIT == 1000000
LOG_CAP == 5000
LOG_KEEP == 4000
OBSERVER_CAP == 5000
HOME_CAP == 1000

----------------------------------------------------------------------------
(* Strings *)

Lexemes == {"05551234567", "05550000002", "05550000003", "999999",
            "12345678901", "22222222222", "00000000000",
            "guest", "ip", "admin", "register", "text", "PAD", "'",
            ";", "--", "drop", "SELECT", "@", "mail", "mail.com",
            "Broadcast: ", "...", "Dear User", "Best regards",
            "Dear ", "Report", "log line", "HOME: ", "ANNOUNCEMENT: "}

LexWidth(l) ==
    CASE l = "PAD" -> MAX_INPUT_LENGTH
      [] l = "'" -> 1
      [] l = ";" -> 1
      [] l = "--" -> 2
      [] l = "drop" -> 4
      [] l = "SELECT" -> 6
      [] l \in {"05551234567", "05550000002", "05550000003",
                "12345678901", "22222222222", "00000000000"} -> 11
      [] l = "999999" -> 6
      [] l = "register" -> 8
      [] l = "@" -> 1
      [] l = "mail" -> 4
      [] l = "mail.com" -> 8
      [] l = "Broadcast: " -> 11
      [] l = "..." -> 3
      [] l = "Dear User" -> 76
      [] l = "Best regards" -> 37
      [] l = "Report" -> 12
      [] l = "log line" -> 44
      [] l = "HOME: " -> 6
      [] l = "ANNOUNCEMENT: " -> 17
      [] OTHER -> 5

RECURSIVE StrLen(_)
StrLen(s) == IF s = <<>> THEN 0 ELSE LexWidth(Head(s)) + StrLen(Tail(s))

Upper(l) == CASE l = "drop" -> "DROP" [] OTHER -> l

sql_patterns == <<";", "--", "/*", "*/", "XP_", "UNION", "SELECT", "DROP",
                  "INSERT", "DELETE", "UPDATE">>

Matches(l, pattern) == Upper(l) = pattern

Search(pattern, s) == \E i \in 1..Len(s) : Matches(s[i], pattern)

Sub(pattern, s) == SelectSeq(s, LAMBDA l : ~Matches(l, pattern))

RECURSIVE ReplaceQuotes(_)
ReplaceQuotes(s) ==
    IF s = <<>> THEN <<>>
    ELSE (IF Head(s) = "'" THEN <<"'", "'">> ELSE <<Head(s)>>)
         \o ReplaceQuotes(Tail(s))

RECURSIVE StripPatterns(_, _)
StripPatterns(s, i) ==
    IF i > Len(sql_patterns) THEN s
    ELSE StripPatterns(IF Search(sql_patterns[i], s)
                       THEN Sub(sql_patterns[i], s) ELSE s, i + 1)

prevent_sql_injection(input_val) == ReplaceQuotes(StripPatterns(input_val, 1))

----------------------------------------------------------------------------
(* The security gate *)

\* mutant: a timestamp exactly one window old is still counted
Prune_inclusive(hist, current_time) ==
    SelectSeq(hist, LAMBDA t : current_time - t <= RATE_LIMIT_WINDOW)

Prune(hist, current_time) ==
    SelectSeq(hist, LAMBDA t : current_time - t < RATE_LIMIT_WINDOW)

\* mutant: one request too many is let through
RateLimited_late(pruned) == Len(pruned) > MAX_REQUESTS_PER_WINDOW

RateLimited(pruned) == Len(pruned) >= MAX_REQUESTS_PER_WINDOW

\* mutant: the request is entered in the ledger before its input is checked
check_security_ratefirst(rh, t, dbg, input_str, user_id) ==
    IF dbg
    THEN [ok |-> FALSE, msg |-> "System cannot be run in debug mode.", rh |-> rh]
    ELSE LET pruned == Prune(rh[user_id], t)
             entered == [rh EXCEPT ![user_id] = Append(pruned, t)] IN
         IF RateLimited(pruned)
         THEN [ok |-> FALSE,
               msg |-> "You have sent too many requests. Please wait.",
               rh |-> [rh EXCEPT ![user_id] = pruned]]
         ELSE IF input_str # <<>> /\ StrLen(input_str) > MAX_INPUT_LENGTH
         THEN [ok |-> FALSE, msg |-> "Data size is too large.",
               rh |-> entered]
         ELSE IF prevent_sql_injection(input_str) # ReplaceQuotes(input_str)
         THEN [ok |-> FALSE, msg |-> "Invalid characters detected.",
               rh |-> entered]
         ELSE [ok |-> TRUE, msg |-> "Safe", rh |-> entered]

\* check_security(input_str, user_id) on ledger rh at time t with the
\* debugger flag dbg: the result and the ledger it leaves.
check_security(rh, t, dbg, input_str, user_id) ==
    IF dbg
    THEN [ok |-> FALSE, msg |-> "System cannot be run in debug mode.", rh |-> rh]
    ELSE IF input_str # <<>> /\ StrLen(input_str) > MAX_INPUT_LENGTH
    THEN [ok |-> FALSE, msg |-> "Data size is too large.", rh |-> rh]
    ELSE IF prevent_sql_injection(input_str) # ReplaceQuotes(input_str)
    THEN [ok |-> FALSE, msg |-> "Invalid characters detected.", rh |-> rh]
    ELSE LET pruned == Prune(rh[user_id], t) IN
         IF RateLimited(pruned)
         THEN [ok |-> FALSE,
               msg |-> "You have sent too many requests. Please wait.",
               rh |-> [rh EXCEPT ![user_id] = pruned]]
         ELSE [ok |-> TRUE, msg |-> "Safe",
               rh |-> [rh EXCEPT ![user_id] = Append(pruned, t)]]

----------------------------------------------------------------------------
(* Domain entities *)

Str(l) == <<l>>

HONEYPOT_PHONE == Str("999999")
P1 == Str("05551234567")
P2 == Str("05550000002")
P3 == Str("05550000003")
TC1 == Str("12345678901")
TC2 == Str("22222222222")
MAIL1 == <<"mail", "@", "mail.com">>
NOMAIL == <<>>

\* A stored password is a sequence of tokens, each a tuple: <<l>> for the
\* characters l of a salt, COLON for ":", and one token for a hex digest.
COLON == <<":">>

Salt(l) == <<<<l>>>>

RECURSIVE Flatten(_)
Flatten(tokens) ==
    IF tokens = <<>> THEN <<>> ELSE Head(tokens) \o Flatten(Tail(tokens))

\* hashlib.sha256(salted_input.encode()).hexdigest(): a token without ":",
\* the digest taken as injective in the salted input
sha256(salted_input) == <<"sha256">> \o salted_input

\* SecurityManager.hash_password with the salt given or generated:
\* f"{salt}:{hashed_password}"
hash_password(plain_password, salt) ==
    salt \o <<COLON>> \o <<sha256(Flatten(salt) \o <<plain_password>>)>>

\* str.split(':')
RECURSIVE Split(_)
Split(s) ==
    IF \A i \in 1..Len(s) : s[i] # COLON THEN <<s>>
    ELSE LET i == CHOOSE k \in 1..Len(s) :
                      s[k] = COLON /\ \A j \in 1..(k - 1) : s[j] # COLON
         IN  <<SubSeq(s, 1, i - 1)>> \o Split(SubSeq(s, i + 1, Len(s)))

\* mutant: any stored value of the form salt:hash verifies
verify_password_loose(stored_password, provided_password) ==
    Len(Split(stored_password)) = 2

\* verify_password: unpacking anything but two parts raises ValueError,
\* which is caught and answered with False
verify_password(stored_password, provided_password) ==
    LET parts == Split(stored_password) IN
    IF Len(parts) # 2 THEN FALSE
    ELSE LET new_parts == Split(hash_password(provided_password, parts[1]))
         IN  IF Len(new_parts) # 2 THEN FALSE
             ELSE new_parts[2] = parts[2]

\* SmartHomeSystem(owner_phone): no sink, an empty history
SmartHomeSystem(owner_phone) ==
    [owner_phone |-> owner_phone, log_callback |-> FALSE,
     history_logs |-> <<>>]

Resident(oid, name, surname, email, address, phone) ==
    [kind |-> "Resident", oid |-> oid,
     name |-> prevent_sql_injection(name),
     surname |-> prevent_sql_injection(surname),
     email |-> email, address |-> address, phone |-> phone,
     home_system |-> SmartHomeSystem(phone)]

MailObserver(oid, email) ==
    [kind |-> "MailObserver", oid |-> oid, email |-> email]

Authority(oid, kind) == [kind |-> kind, oid |-> oid]

GUIObserver(oid) == [kind |-> "GUIObserver", oid |-> oid]

UserRecord(tc_no, password_hash, resident, is_honeypot) ==
    [tc_no |-> tc_no, password |-> password_hash, resident |-> resident,
     balance |-> 0, history |-> <<>>, is_honeypot |-> is_honeypot]

----------------------------------------------------------------------------
(* Banking services: each returns (ok, message) and the directory it leaves *)

Msg(text, val) == [text |-> text, val |-> val]

Entry(kind, amount) == [kind |-> kind, amount |-> amount]

EmptyDict == [k \in {} |-> ""]
CardDetails == [k \in {"card_no", "cvv"} |->
                   IF k = "card_no" THEN "1234567812345678" ELSE "123"]
WalletDetails == [k \in {"wallet_id"} |-> "W1"]
BlankCard == [k \in {"card_no"} |-> ""]

\* details.get(key), "" standing for a missing key (both are falsy)
DictGet(details, key) == IF key \in DOMAIN details THEN details[key] ELSE ""

Truthy(v) == v # ""

Result(ok, msg, users) == [ok |-> ok, msg |-> msg, users |-> users]

Credit(users, user_id, amount, kind) ==
    [users EXCEPT ![user_id].balance = @ + amount,
                  ![user_id].history = Append(@, Entry(kind, amount))]

Debit(users, user_id, amount, kind) ==
    [users EXCEPT ![user_id].balance = @ - amount,
                  ![user_id].history = Append(@, Entry(kind, amount))]

Record(users, user_id, amount, kind) ==
    [users EXCEPT ![user_id].history = Append(@, Entry(kind, amount))]

\* mutant: the upper limit excludes LOAD_LIMIT itself
Fiat_load_money_strict(users, user_id, amount, details) ==
    IF amount <= 0 \/ amount >= LOAD_LIMIT
    THEN Result(FALSE, Msg("Invalid amount.", 0), users)
    ELSE IF user_id \notin DOMAIN users
    THEN Result(FALSE, Msg("User not found", 0), users)
    ELSE LET u == Credit(users, user_id, amount, "Deposit") IN
         Result(TRUE, Msg("New Balance", u[user_id].balance), u)

\* mutant: no upper limit
Fiat_load_money_nolimit(users, user_id, amount, details) ==
    IF amount <= 0
    THEN Result(FALSE, Msg("Invalid amount.", 0), users)
    ELSE IF user_id \notin DOMAIN users
    THEN Result(FALSE, Msg("User not found", 0), users)
    ELSE LET u == Credit(users, user_id, amount, "Deposit") IN
         Result(TRUE, Msg("New Balance", u[user_id].balance), u)

Fiat_load_money(users, user_id, amount, details) ==
    IF amount <= 0 \/ amount > LOAD_LIMIT
    THEN Result(FALSE, Msg("Invalid amount.", 0), users)
    ELSE IF user_id \notin DOMAIN users
    THEN Result(FALSE, Msg("User not found", 0), users)
    ELSE LET u == Credit(users, user_id, amount, "Deposit") IN
         Result(TRUE, Msg("New Balance", u[user_id].balance), u)

\* mutant: the balance is debited without comparing it to the amount
Fiat_pay_bill_nocheck(users, amount, bill_type, user_id, details) ==
    IF amount <= 0
    THEN Result(FALSE, Msg("Invalid amount", 0), users)
    ELSE IF user_id \notin DOMAIN users
    THEN Result(FALSE, Msg("No Account", 0), users)
    ELSE IF Truthy(DictGet(details, "card_no"))
    THEN Result(TRUE, Msg("Paid by card.", 0),
                Record(users, user_id, amount, "Card Payment"))
    ELSE LET u == Debit(users, user_id, amount, "Balance Payment") IN
         Result(TRUE, Msg("Paid from balance. Remaining", u[user_id].balance), u)

\* mutant: a card payment also debits the balance
Fiat_pay_bill_carddebit(users, amount, bill_type, user_id, details) ==
    IF amount <= 0
    THEN Result(FALSE, Msg("Invalid amount", 0), users)
    ELSE IF user_id \notin DOMAIN users
    THEN Result(FALSE, Msg("No Account", 0), users)
    ELSE IF Truthy(DictGet(details, "card_no"))
    THEN Result(TRUE, Msg("Paid by card.", 0),
                Debit(users, user_id, amount, "Card Payment"))
    ELSE IF users[user_id].balance >= amount
    THEN LET u == Debit(users, user_id, amount, "Balance Payment") IN
         Result(TRUE, Msg("Paid from balance. Remaining", u[user_id].balance), u)
    ELSE Result(FALSE, Msg("Insufficient Balance.", 0), users)

\* mutant: a payment of the whole balance is refused
Fiat_pay_bill_strict(users, amount, bill_type, user_id, details) ==
    IF amount <= 0
    THEN Result(FALSE, Msg("Invalid amount", 0), users)
    ELSE IF user_id \notin DOMAIN users
    THEN Result(FALSE, Msg("No Account", 0), users)
    ELSE IF Truthy(DictGet(details, "card_no"))
    THEN Result(TRUE, Msg("Paid by card.", 0),
                Record(users, user_id, amount, "Card Payment"))
    ELSE IF users[user_id].balance > amount
    THEN LET u == Debit(users, user_id, amount, "Balance Payment") IN
         Result(TRUE, Msg("Paid from balance. Remaining", u[user_id].balance), u)
    ELSE Result(FALSE, Msg("Insufficient Balance.", 0), users)

Fiat_pay_bill(users, amount, bill_type, user_id, details) ==
    IF amount <= 0
    THEN Result(FALSE, Msg("Invalid amount", 0), users)
    ELSE IF user_id \notin DOMAIN users
    THEN Result(FALSE, Msg("No Account", 0), users)
    ELSE IF Truthy(DictGet(details, "card_no"))
    THEN Result(TRUE, Msg("Paid by card.", 0),
                Record(users, user_id, amount, "Card Payment"))
    ELSE IF users[user_id].balance >= amount
    THEN LET u == Debit(users, user_id, amount, "Balance Payment") IN
         Result(TRUE, Msg("Paid from balance. Remaining", u[user_id].balance), u)
    ELSE Result(FALSE, Msg("Insufficient Balance.", 0), users)

Crypto_load_money(users, user_id, amount, details) ==
    IF amount <= 0
    THEN Result(FALSE, Msg("Invalid.", 0), users)
    ELSE IF user_id \notin DOMAIN users
    THEN Result(FALSE, Msg("User not found", 0), users)
    ELSE Result(TRUE, Msg("Loaded.", 0),
                Credit(users, user_id, amount, "Crypto Deposit"))

\* mutant: a payment refused for its balance is entered in the history
Crypto_pay_bill_logfail(users, amount, bill_type, user_id, details) ==
    IF amount <= 0
    THEN Result(FALSE, Msg("Invalid.", 0), users)
    ELSE IF user_id \notin DOMAIN users
    THEN Result(FALSE, Msg("No Account", 0), users)
    ELSE IF Truthy(DictGet(details, "wallet_id"))
    THEN Result(TRUE, Msg("Paid with crypto.", 0),
                Record(users, user_id, amount, "Crypto Payment"))
    ELSE IF users[user_id].balance >= amount
    THEN Result(TRUE, Msg("Paid from balance.", 0),
                Debit(users, user_id, amount, "Balance Payment"))
    ELSE Result(FALSE, Msg("Insufficient Balance", 0),
                Record(users, user_id, amount, "Refused"))

Crypto_pay_bill(users, amount, bill_type, user_id, details) ==
    IF amount <= 0
    THEN Result(FALSE, Msg("Invalid.", 0), users)
    ELSE IF user_id \notin DOMAIN users
    THEN Result(FALSE, Msg("No Account", 0), users)
    ELSE IF Truthy(DictGet(details, "wallet_id"))
    THEN Result(TRUE, Msg("Paid with crypto.", 0),
                Record(users, user_id, amount, "Crypto Payment"))
    ELSE IF users[user_id].balance >= amount
    THEN Result(TRUE, Msg("Paid from balance.", 0),
                Debit(users, user_id, amount, "Balance Payment"))
    ELSE Result(FALSE, Msg("Insufficient Balance", 0), users)

load_money(service, users, user_id, amount, details) ==
    IF service = "Fiat"
    THEN Fiat_load_money(users, user_id, amount, details)
    ELSE Crypto_load_money(users, user_id, amount, details)

pay_bill(service, users, amount, bill_type, user_id, details) ==
    IF service = "Fiat"
    THEN Fiat_pay_bill(users, amount, bill_type, user_id, details)
    ELSE Crypto_pay_bill(users, amount, bill_type, user_id, details)

\* f"Parking ({location})"
ParkingAt(location) == <<"Parking (", location, ")">>

pay_parking(service, users, amount, location, user_id, details) ==
    pay_bill(service, users, amount, ParkingAt(location), user_id, details)

PayBillCommand(service, amount, bill_type, user_id, details, location) ==
    [service |-> service, amount |-> amount,
     bill_type |-> bill_type, user_id |-> user_id, details |-> details,
     location |-> location]

\* the outcome r of the service method that execute called, with the call
Called(method, cmd, arg, r) ==
    [ok |-> r.ok, msg |-> r.msg, users |-> r.users,
     call |-> [method |-> method, service |-> cmd.service,
               amount |-> cmd.amount, arg |-> arg, user_id |-> cmd.user_id,
               details |-> cmd.details]]

\* mutant: every command goes to pay_bill with its own bill type
execute_flat(cmd, users) ==
    Called("pay_bill", cmd, cmd.bill_type,
           pay_bill(cmd.service, users, cmd.amount, cmd.bill_type,
                    cmd.user_id, cmd.details))

execute(cmd, users) ==
    IF cmd.bill_type = <<"Parking">>
    THEN Called("pay_parking", cmd, cmd.location,
                pay_parking(cmd.service, users, cmd.amount, cmd.location,
                            cmd.user_id, cmd.details))
    ELSE Called("pay_bill", cmd, cmd.bill_type,
                pay_bill(cmd.service, users, cmd.amount, cmd.bill_type,
                         cmd.user_id, cmd.details))

----------------------------------------------------------------------------
(* The command slot of the controller *)

\* mutant: a pending command is not overwritten
set_command_keep(slot, command) == IF slot # <<>> THEN slot ELSE command

set_command(slot, command) == command

\* execute_command: (ok, message), the directory it leaves, and the
\* commands it ran
execute_command(slot, users) ==
    IF slot # <<>>
    THEN LET r == execute(slot[1], users) IN
         [ok |-> r.ok, msg |-> r.msg, users |-> r.users, ran |-> <<slot[1]>>,
          calls |-> <<r.call>>]
    ELSE [ok |-> FALSE, msg |-> Msg("No command", 0), users |-> users,
          ran |-> <<>>, calls |-> <<>>]

----------------------------------------------------------------------------
(* Inputs *)

Services == {"Fiat", "Crypto"}
LoadAmounts == {0, LOAD_LIMIT, LOAD_LIMIT + 1}

LoadReq(service, user_id, amount) ==
    [service |-> service, user_id |-> user_id, amount |-> amount]

LoadRequests ==
    {LoadReq(s, P1, a) : s \in Services, a \in LoadAmounts}
        \cup {LoadReq("Fiat", P1, -1), LoadReq("Fiat", P1, 1),
              LoadReq("Fiat", P3, LOAD_LIMIT), LoadReq("Crypto", P3, 1)}

PayReq(service, user_id, amount, details) ==
    [service |-> service, user_id |-> user_id, amount |-> amount,
     details |-> details]

PayRequests ==
    {PayReq(s, P1, 1, d) : s \in Services,
                           d \in {EmptyDict, CardDetails, WalletDetails}}
        \cup {PayReq("Fiat", P1, 0, CardDetails),
              PayReq("Crypto", P1, 0, WalletDetails),
              PayReq("Fiat", P3, 1, CardDetails),
              PayReq("Crypto", P3, 1, EmptyDict)}

ParkingRequests ==
    {PayReq("Fiat", P1, 1, EmptyDict), PayReq("Fiat", P1, 1, CardDetails),
     PayReq("Crypto", P1, 1, WalletDetails), PayReq("Crypto", P3, 0, EmptyDict)}

ELECTRICITY == <<"Electricity">>
PARKING == <<"Parking">>

Commands ==
    {PayBillCommand("Fiat", 1, ELECTRICITY, P1, EmptyDict, ""),
     PayBillCommand("Crypto", 1, PARKING, P1, WalletDetails, "A1")}

Identities == {Str("guest"), Str("ip"), P1, P2, HONEYPOT_PHONE, MAIL1}

----------------------------------------------------------------------------
(* Initial states *)

NoOp == [op |-> "init", ok |-> TRUE, gate |-> <<>>]

\* the threads that send_mail_report_threaded can have running
Workers == 1..MaxWorkers

\* a thread that is not running; a running one is inside the check_security
\* call of its send_real_email, at pc, with the locals of that call
NoThread == [pc |-> "idle", user_id |-> <<>>, current_time |-> 0,
             pruned |-> <<>>]

HoneypotRecord ==
    UserRecord(Str("00000000000"), hash_password("123456", Salt("s0")),
               Resident(0, Str("admin"), Str("text"), MAIL1, Str("text"),
                        HONEYPOT_PHONE), TRUE)

\* Login() and the two authority observers the application adds at start
Init ==
    /\ now = 0
    /\ threads = [w \in Workers |-> NoThread]
    /\ request_history = [i \in Identities |-> <<>>]
    /\ authorized_users = [p \in {HONEYPOT_PHONE} |-> HoneypotRecord]
    /\ observers = <<Authority(1, "PublicSecurityAuthority"),
                     Authority(2, "PublicUtilityService")>>
    /\ logs = <<>>
    /\ current_command = <<>>
    /\ nextOid = 3
    /\ logCalls = 0
    /\ accepted = [i \in Identities |-> <<>>]
    /\ lastSet = <<>>
    /\ replaced = <<>>
    /\ slotRuns = 0
    /\ last = NoOp

----------------------------------------------------------------------------
(* Banking operations *)

HistRoom(user_id) ==
    user_id \in DOMAIN authorized_users
        => Len(authorized_users[user_id].history) < MaxHist

\* the bound on the histories: an operation is taken while its outcome fits
HistFits(users) == \A p \in DOMAIN users : Len(users[p].history) <= MaxHist

LoadMoneyOf(requests) ==
    \E q \in requests :
        /\ LET details == IF q.service = "Fiat" THEN CardDetails
                          ELSE WalletDetails
               r == load_money(q.service, authorized_users, q.user_id,
                               q.amount, details) IN
            /\ HistFits(r.users)
            /\ authorized_users' = r.users
            /\ last' = [op |-> "load_money", service |-> q.service,
                        user_id |-> q.user_id, amount |-> q.amount,
                        ok |-> r.ok, msg |-> r.msg, gate |-> <<>>]
        /\ UNCHANGED <<gateVars, slotVars, obsVars, logVars>>

LoadMoney == LoadMoneyOf(LoadRequests)

PayBillOf(requests) ==
    \E q \in requests :
        /\ LET r == pay_bill(q.service, authorized_users, q.amount,
                             ELECTRICITY, q.user_id, q.details) IN
            /\ HistFits(r.users)
            /\ authorized_users' = r.users
            /\ last' = [op |-> "pay_bill", service |-> q.service,
                        user_id |-> q.user_id, amount |-> q.amount,
                        details |-> q.details, ok |-> r.ok, msg |-> r.msg,
                        gate |-> <<>>]
        /\ UNCHANGED <<gateVars, slotVars, obsVars, logVars>>

PayBill == PayBillOf(PayRequests)

PayParking ==
    \E q \in ParkingRequests :
        /\ LET r == pay_parking(q.service, authorized_users, q.amount, "A1",
                                q.user_id, q.details) IN
            /\ HistFits(r.users)
            /\ authorized_users' = r.users
            /\ last' = [op |-> "pay_parking", service |-> q.service,
                        user_id |-> q.user_id, amount |-> q.amount,
                        details |-> q.details, ok |-> r.ok, msg |-> r.msg,
                        gate |-> <<>>]
        /\ UNCHANGED <<gateVars, slotVars, obsVars, logVars>>

SetCommandOf(commands) ==
    \E command \in {<<>>} \cup {<<c>> : c \in commands} :
        /\ command # <<>> => HistRoom(command[1].user_id)
        /\ current_command' = set_command(current_command, command)
        /\ lastSet' = command
        /\ replaced' = IF slotRuns = 0 THEN lastSet ELSE <<>>
        /\ slotRuns' = 0
        /\ last' = [op |-> "set_command", ok |-> TRUE, gate |-> <<>>]
        /\ UNCHANGED <<gateVars, bankVars, obsVars, logVars>>

SetCommand == SetCommandOf(Commands)

ExecuteCommand ==
    /\ slotRuns < MaxRuns
    /\ LET r == execute_command(current_command, authorized_users) IN
        /\ authorized_users' = r.users
        /\ last' = [op |-> "execute_command", ok |-> r.ok, msg |-> r.msg,
                    ran |-> r.ran, calls |-> r.calls, gate |-> <<>>]
        /\ slotRuns' = slotRuns + Len(r.ran)
    /\ UNCHANGED <<gateVars, current_command, lastSet, replaced, obsVars,
                   logVars>>

----------------------------------------------------------------------------
(* Operations that call the gate *)

\* The ledger, the accepted-request history and the trace of gate calls,
\* threaded through the check_security calls of one operation.
GateStart == [rh |-> request_history, acc |-> accepted, calls |-> <<>>]

GateCall(g, dbg, input_str, user_id) ==
    LET r == check_security(g.rh, now, dbg, input_str, user_id) IN
    [rh |-> r.rh,
     acc |-> IF r.ok THEN [g.acc EXCEPT ![user_id] = Append(@, now)]
             ELSE g.acc,
     calls |-> Append(g.calls, [user_id |-> user_id, input |-> input_str,
                                dbg |-> dbg, ok |-> r.ok, msg |-> r.msg])]

GateDone(g) ==
    /\ request_history' = g.rh
    /\ accepted' = g.acc
    /\ UNCHANGED <<now, threads>>

TickSteps == {30}

Tick ==
    \E dt \in TickSteps :
        /\ now + dt <= MaxTime
        /\ now' = now + dt
        /\ last' = [op |-> "tick", ok |-> TRUE, gate |-> <<>>]
        /\ UNCHANGED <<request_history, accepted, threads, bankVars,
                       slotVars, obsVars, logVars>>

add_observer(obs, observer) ==
    IF Len(obs) > OBSERVER_CAP THEN obs ELSE Append(obs, observer)

HasAt(email) == \E i \in 1..Len(email) : email[i] = "@"

TcTaken(users, tc_no) == \E p \in DOMAIN users : users[p].tc_no = tc_no

INJECTION == <<"text", ";", "drop">>
TOO_LONG == <<"PAD", "text">>

\* Login.register
Register(tcs, names, emails, phones, salts) ==
    \E tc_no \in tcs, name \in names, email \in emails, phone \in phones,
       salt \in salts, dbg \in BOOLEAN :
        LET g1 == GateCall(GateStart, dbg, tc_no, Str("guest"))
            g2 == GateCall(g1, dbg, Str("register"), phone)
            is_safe_tc == g2.calls[1].ok
            is_not_spam == g2.calls[2].ok
            clean_name == prevent_sql_injection(name)
            clean_surname == prevent_sql_injection(Str("text"))
            resident == Resident(nextOid, clean_name, clean_surname, email,
                                 Str("text"), phone)
            record == UserRecord(tc_no, hash_password("1234", Salt(salt)),
                                 resident, FALSE)
            obs1 == add_observer(observers, resident)
            withMail == email # <<>> /\ HasAt(email)
            obs2 == IF withMail
                    THEN add_observer(obs1, MailObserver(nextOid + 1, email))
                    ELSE obs1
            args == [tc_no |-> tc_no, phone |-> phone, email |-> email]
        IN
        /\ Len(observers) + 2 <= MaxObservers
        /\ GateDone(g2)
        /\ IF ~(is_safe_tc /\ is_not_spam)
           THEN /\ last' = [op |-> "register", ok |-> FALSE,
                            msg |-> "rejected", a |-> args, gate |-> g2.calls]
                /\ UNCHANGED <<bankVars, obsVars>>
           ELSE IF TcTaken(authorized_users, tc_no)
           THEN /\ last' = [op |-> "register", ok |-> FALSE,
                            msg |-> "duplicate", a |-> args,
                            gate |-> g2.calls]
                /\ UNCHANGED <<bankVars, obsVars>>
           ELSE IF StrLen(resident.name) > MAX_INPUT_LENGTH
                   \/ StrLen(resident.surname) > MAX_INPUT_LENGTH
           THEN /\ last' = [op |-> "register", ok |-> FALSE,
                            msg |-> "ValueError", a |-> args,
                            gate |-> g2.calls]
                /\ UNCHANGED <<bankVars, obsVars>>
           ELSE /\ authorized_users' =
                       [p \in DOMAIN authorized_users \cup {phone} |->
                           IF p = phone THEN record ELSE authorized_users[p]]
                /\ observers' = obs2
                /\ nextOid' = nextOid + (IF withMail THEN 2 ELSE 1)
                /\ last' = [op |-> "register", ok |-> TRUE,
                            msg |-> "registered", a |-> args,
                            gate |-> g2.calls]
        /\ UNCHANGED <<slotVars, logVars>>

\* Login.login
Login(phones, passwords, dbgs) ==
    \E phone \in phones, password \in passwords, dbg \in dbgs :
        LET g == GateCall(GateStart, dbg, phone, phone)
            clean_phone == prevent_sql_injection(phone)
            granted ==
                /\ g.calls[1].ok
                /\ clean_phone \in DOMAIN authorized_users
                /\ ~authorized_users[clean_phone].is_honeypot
                /\ verify_password(authorized_users[clean_phone].password,
                                   password)
        IN
        /\ GateDone(g)
        /\ last' = [op |-> "login", ok |-> granted, msg |-> "login",
                    a |-> [phone |-> phone, password |-> password],
                    gate |-> g.calls]
        /\ UNCHANGED <<bankVars, slotVars, obsVars, logVars>>

\* Login.login_admin
LoginAdmin ==
    \E username \in {Str("admin"), Str("guest")},
       password \in {"1234", "bad"}, dbg \in BOOLEAN :
        LET g == GateCall(GateStart, dbg, Str("admin"), Str("ip"))
            clean_user == prevent_sql_injection(username)
        IN
        /\ GateDone(g)
        /\ last' = [op |-> "login_admin",
                    ok |-> /\ g.calls[1].ok
                           /\ clean_user = Str("admin")
                           /\ password = "1234",
                    msg |-> "admin", gate |-> g.calls]
        /\ UNCHANGED <<bankVars, slotVars, obsVars, logVars>>

Lower(l) == CASE l = "SELECT" -> "select" [] l = "PAD" -> "pad" [] OTHER -> l

LowerStr(s) == [i \in DOMAIN s |-> Lower(s[i])]

\* q in s, for strings made of whole lexemes
Contains(q, s) ==
    \E i \in 0..(Len(s) - Len(q)) : SubSeq(s, i + 1, i + Len(q)) = q

\* mutant: honeypot records are searched like the others
search_users_all(users, query) ==
    LET clean_query == prevent_sql_injection(query) IN
    {[name |-> users[phone].resident.name,
      surname |-> users[phone].resident.surname, phone |-> phone] :
        phone \in {p \in DOMAIN users :
            Contains(LowerStr(clean_query),
                     LowerStr(users[p].resident.name \o <<" ">>
                              \o users[p].resident.surname \o <<" ">>
                              \o p))}}

\* the result of search_users once the gate has accepted the query: one
\* entry "name surname | Phone: phone" for each record that is not a
\* honeypot and whose text holds the query (as a set: the order of the
\* directory is not modelled)
search_users(users, query) ==
    LET clean_query == prevent_sql_injection(query) IN
    {[name |-> users[phone].resident.name,
      surname |-> users[phone].resident.surname, phone |-> phone] :
        phone \in {p \in DOMAIN users :
            /\ ~users[p].is_honeypot
            /\ Contains(LowerStr(clean_query),
                        LowerStr(users[p].resident.name \o <<" ">>
                                 \o users[p].resident.surname \o <<" ">>
                                 \o p))}}

\* get_all_users: one entry for each record, honeypots flagged
get_all_users(users) ==
    {[tc_no |-> users[phone].tc_no, name |-> users[phone].resident.name,
      surname |-> users[phone].resident.surname, phone |-> phone,
      email |-> users[phone].resident.email,
      address |-> users[phone].resident.address,
      balance |-> users[phone].balance,
      honeypot_status |-> IF users[phone].is_honeypot
                          THEN " [HONEYPOT/FAKE]" ELSE ""] :
        phone \in DOMAIN users}

\* CityController.search_users
SearchUsers(queries, dbgs) ==
    \E query \in queries, dbg \in dbgs :
        LET g == GateCall(GateStart, dbg, query, Str("guest")) IN
        /\ GateDone(g)
        /\ last' = [op |-> "search_users", ok |-> g.calls[1].ok,
                    msg |-> g.calls[1].msg, query |-> query,
                    result |-> IF g.calls[1].ok
                               THEN search_users(authorized_users, query)
                               ELSE {[error |-> g.calls[1].msg]},
                    gate |-> g.calls]
        /\ UNCHANGED <<bankVars, slotVars, obsVars, logVars>>

\* CityController.get_all_users
GetAllUsers ==
    /\ last' = [op |-> "get_all_users", ok |-> TRUE,
                result |-> get_all_users(authorized_users), gate |-> <<>>]
    /\ UNCHANGED <<gateVars, bankVars, slotVars, obsVars, logVars>>

----------------------------------------------------------------------------
(* The banking services and the command slot, from the state the directory
   is in once P1 and P2 have registered (at time 0) *)

RegisteredRecord(oid, tc_no, phone) ==
    UserRecord(tc_no, hash_password("1234", Salt("s1")),
               Resident(oid, Str("text"), Str("text"), MAIL1, Str("text"),
                        phone), FALSE)

InitBank ==
    /\ now = 0
    /\ threads = [w \in Workers |-> NoThread]
    /\ request_history =
           [i \in Identities |->
               IF i = Str("guest") THEN <<0, 0>>
               ELSE IF i \in {P1, P2} THEN <<0>> ELSE <<>>]
    /\ accepted = request_history
    /\ authorized_users =
           [p \in {HONEYPOT_PHONE, P1, P2} |->
               IF p = P1 THEN RegisteredRecord(3, TC1, P1)
               ELSE IF p = P2 THEN RegisteredRecord(5, TC2, P2)
               ELSE HoneypotRecord]
    /\ observers = <<Authority(1, "PublicSecurityAuthority"),
                     Authority(2, "PublicUtilityService"),
                     RegisteredRecord(3, TC1, P1).resident,
                     MailObserver(4, MAIL1),
                     RegisteredRecord(5, TC2, P2).resident,
                     MailObserver(6, MAIL1)>>
    /\ nextOid = 7
    /\ logs = <<>>
    /\ logCalls = 0
    /\ current_command = <<>>
    /\ lastSet = <<>>
    /\ replaced = <<>>
    /\ slotRuns = 0
    /\ last = [op |-> "register", ok |-> TRUE, msg |-> "registered",
               a |-> [tc_no |-> TC2, phone |-> P2, email |-> MAIL1],
               gate |-> <<[user_id |-> Str("guest"), input |-> TC2,
                           dbg |-> FALSE, ok |-> TRUE, msg |-> "Safe"],
                          [user_id |-> P2, input |-> Str("register"),
                           dbg |-> FALSE, ok |-> TRUE, msg |-> "Safe"]>>]

NextBank == LoadMoney \/ PayBill \/ PayParking \/ SetCommand \/ ExecuteCommand

SpecBank == InitBank /\ [][NextBank]_vars

----------------------------------------------------------------------------
(* Registration from the initial state, to reach the banking start state *)

RegisterTwo == Register({TC1, TC2}, {Str("text")}, {MAIL1}, {P1, P2}, {"s1"})

SpecRegister == Init /\ [][RegisterTwo]_vars

----------------------------------------------------------------------------
(* Properties of the banking services and the command slot *)

Registered(user_id) == user_id \in DOMAIN authorized_users

Balance(user_id) == authorized_users[user_id].balance

History(user_id) == authorized_users[user_id].history

Instrument(service) == IF service = "Fiat" THEN "card_no" ELSE "wallet_id"

NoInstrument(service, details) ==
    ~Truthy(DictGet(details, Instrument(service)))

IsPayStep == last'.op \in {"pay_bill", "pay_parking"}

\* a payment step (direct or through the command slot) on a balance below
\* the amount, without the variant's instrument, fails and changes nothing
PayBelowBalanceFails ==
    /\ IsPayStep /\ Registered(last'.user_id)
       /\ Balance(last'.user_id) < last'.amount
       /\ NoInstrument(last'.service, last'.details)
       => ~last'.ok /\ authorized_users' = authorized_users
    /\ last'.op = "execute_command" /\ last'.ran # <<>>
       /\ Registered(last'.ran[1].user_id)
       /\ Balance(last'.ran[1].user_id) < last'.ran[1].amount
       /\ NoInstrument(last'.ran[1].service, last'.ran[1].details)
       => ~last'.ok /\ authorized_users' = authorized_users

BalancesNonNegative ==
    \A p \in DOMAIN authorized_users : authorized_users[p].balance >= 0

\* C1: after any sequence of load_money, pay_bill, pay_parking and command
\* executions every balance is >= 0, and a payment on a balance below the
\* amount with no external instrument fails and leaves the directory
\* unchanged.
C1_BalanceNeverNegative ==
    []BalancesNonNegative /\ [][PayBelowBalanceFails]_vars

\* a payment from a balance that an earlier payment has drawn down to 0 fails
C1_Witness ==
    /\ last.op \in {"pay_bill", "pay_parking"}
    /\ ~last.ok
    /\ last.msg.text \in {"Insufficient Balance.", "Insufficient Balance"}
    /\ Registered(last.user_id)
    /\ Len(History(last.user_id)) = 2
    /\ Balance(last.user_id) = 0

IsLoadStep == last'.op = "load_money"

LoadRefused == ~last'.ok /\ authorized_users' = authorized_users

\* C2 as claimed: load_money of either variant with an amount <= 0 or
\* > 1,000,000 fails and leaves the balance unchanged.
C2_InvalidLoadRefused ==
    [][IsLoadStep /\ (last'.amount <= 0 \/ last'.amount > LOAD_LIMIT)
          => LoadRefused]_vars

\* C2 amended: load_money fails and leaves the directory unchanged for an
\* amount <= 0 (either variant) and, in the Fiat variant, for an amount
\* > 1,000,000.
C2_InvalidLoadRefusedFiatLimit ==
    [][IsLoadStep /\ (\/ last'.amount <= 0
                      \/ last'.service = "Fiat" /\ last'.amount > LOAD_LIMIT)
          => LoadRefused]_vars

\* a Fiat load above the limit was refused on an account holding money
C2_Witness ==
    /\ last.op = "load_money" /\ last.service = "Fiat"
    /\ last.amount > LOAD_LIMIT /\ ~last.ok
    /\ Registered(last.user_id) /\ Balance(last.user_id) > 0

\* C3: for a registered user and 0 < amount <= 1,000,000, load_money of
\* either variant succeeds, adds exactly the amount to that user's balance
\* and appends exactly one entry to that user's history.
C3_ValidLoadCredits ==
    [][IsLoadStep /\ Registered(last'.user_id)
         /\ 0 < last'.amount /\ last'.amount <= LOAD_LIMIT
          => /\ last'.ok
             /\ authorized_users'[last'.user_id].balance
                    = Balance(last'.user_id) + last'.amount
             /\ Len(authorized_users'[last'.user_id].history)
                    = Len(History(last'.user_id)) + 1
             /\ SubSeq(authorized_users'[last'.user_id].history, 1,
                       Len(History(last'.user_id)))
                    = History(last'.user_id)]_vars

\* a load of exactly 1,000,000 succeeded on top of an earlier deposit
C3_Witness ==
    /\ last.op = "load_money" /\ last.ok /\ last.amount = LOAD_LIMIT
    /\ Len(History(last.user_id)) = 2
    /\ Balance(last.user_id) > LOAD_LIMIT

\* C8 as claimed: a command set in the slot is executed at most once, so a
\* second execute_command without a set_command in between does not charge
\* the balance again.
C8_ExecutedAtMostOnce ==
    last.op = "execute_command" /\ slotRuns >= 2
        => ~(last.ok /\ last.msg.text \in {"Paid from balance. Remaining",
                                           "Paid from balance."})

ExecStepRunsLastSet ==
    last'.op = "execute_command" =>
        IF lastSet = <<>>
        THEN /\ ~last'.ok /\ last'.msg.text = "No command"
             /\ last'.ran = <<>>
             /\ UNCHANGED <<authorized_users, current_command, observers,
                            logs, request_history>>
        ELSE /\ last'.ran = lastSet
             /\ authorized_users' = execute(lastSet[1], authorized_users).users

\* C9: the slot holds the command of the last set_command and nothing else:
\* execute_command runs exactly that command (an overwritten command is
\* never run), and on an empty slot it fails with "No command" and changes
\* no state.
C9_LastWriteWins ==
    [](current_command = lastSet /\ Len(current_command) <= 1)
        /\ [][ExecStepRunsLastSet]_vars

\* a command was run after it had overwritten a different, unexecuted one
C9_Witness ==
    /\ last.op = "execute_command" /\ last.ok
    /\ replaced # <<>> /\ replaced # last.ran

----------------------------------------------------------------------------
(* The security gate under its callers, with time passing *)

INJECTION_PHONE == <<"05551234567", ";">>

RegisterOne ==
    Register({TC1, INJECTION}, {Str("text"), TOO_LONG}, {MAIL1}, {P1}, {"s1"})

LoginUser == Login({P1, INJECTION_PHONE}, {"1234"}, BOOLEAN)

SearchGuest == SearchUsers({Str("text"), TOO_LONG}, {FALSE})

NextGate == Tick \/ LoginUser \/ SearchGuest

SpecGate == Init /\ [][NextGate]_vars

----------------------------------------------------------------------------
(* The controller log and the observer fan-out *)

\* s[-n:]
LastN(s, n) == IF Len(s) <= n THEN s ELSE SubSeq(s, Len(s) - n + 1, Len(s))

log(lg, message) ==
    Append(IF Len(lg) > LOG_CAP THEN LastN(lg, LOG_KEEP) ELSE lg, message)

\* CityController.log called with an entry that carries its call number
Log ==
    /\ logCalls < MaxLogCalls
    /\ logs' = log(logs, logCalls + 1)
    /\ logCalls' = logCalls + 1
    /\ last' = [op |-> "log", ok |-> TRUE, gate |-> <<>>]
    /\ UNCHANGED <<gateVars, bankVars, slotVars, obsVars>>

\* the state after LOG_CAP - 100 calls of log on the empty buffer of Init:
\* none of them finds the buffer above LOG_CAP, so each one only appends
InitLog ==
    /\ now = 0
    /\ threads = [w \in Workers |-> NoThread]
    /\ request_history = [i \in Identities |-> <<>>]
    /\ authorized_users = [p \in {HONEYPOT_PHONE} |-> HoneypotRecord]
    /\ observers = <<Authority(1, "PublicSecurityAuthority"),
                     Authority(2, "PublicUtilityService")>>
    /\ logs = [i \in 1..(LOG_CAP - 100) |-> i]
    /\ current_command = <<>>
    /\ nextOid = 3
    /\ logCalls = LOG_CAP - 100
    /\ accepted = [i \in Identities |-> <<>>]
    /\ lastSet = <<>>
    /\ replaced = <<>>
    /\ slotRuns = 0
    /\ last = [op |-> "log", ok |-> TRUE, gate |-> <<>>]

SpecLog == InitLog /\ [][Log]_vars

SpecLogFromEmpty == Init /\ [][Log]_vars

\* s[:n], for strings that are cut between two lexemes
RECURSIVE Prefix(_, _)
Prefix(s, n) ==
    IF s = <<>> \/ LexWidth(Head(s)) > n THEN <<>>
    ELSE <<Head(s)>> \o Prefix(Tail(s), n - LexWidth(Head(s)))

MailBody(message) ==
    LET safe_message == IF StrLen(message) > MAX_INPUT_LENGTH
                        THEN Prefix(message, MAX_INPUT_LENGTH) \o <<"...">>
                        ELSE message
    IN  <<"Dear User">> \o safe_message \o <<"Best regards">>

send_real_email(g, dbg, to_email, body) == GateCall(g, dbg, body, to_email)

\* the message that the sink of the dashboard passes on: log_to_gui gets
\* "ANNOUNCEMENT: message" from Resident.update and notifies "HOME: ..."
Announcement(message) == <<"HOME: ", "ANNOUNCEMENT: ">> \o message

\* a fan-out under way: the gate, the log buffer, the number of log calls,
\* the observers invoked so far, and the nesting of notify_observers calls
FanOut(g, lg) ==
    [g |-> g, logs |-> lg, nlog |-> 0, delivered |-> <<>>, raised |-> FALSE,
     depth |-> 0]

RECURSIVE Deliver(_, _, _, _, _, _)

\* obs.update(message): a MailObserver mails the message, which takes the
\* gate under the address as identity; a Resident forwards to the sink of
\* its home system if one is set, and the sink of the dashboard calls
\* notify_observers again (at MaxDepth nested calls the interpreter raises
\* RecursionError, which the loop swallows); the other observers print.
update(st, dbg, obs, registry, failing, message) ==
    IF obs.kind = "MailObserver"
    THEN [st EXCEPT !.g = send_real_email(@, dbg, obs.email,
                                          MailBody(message))]
    ELSE IF obs.kind = "Resident" /\ obs.home_system.log_callback
    THEN IF st.depth >= MaxDepth THEN st
         ELSE LET entered ==
                      [st EXCEPT
                          !.logs = log(@, <<"Broadcast: ">>
                                              \o Announcement(message)),
                          !.nlog = @ + 1, !.depth = @ + 1]
                  inner == Deliver(registry, 1, Announcement(message),
                                   failing, dbg, entered)
              IN  [inner EXCEPT !.depth = st.depth]
    ELSE st

\* the loop of notify_observers from observer i on; the update of an
\* observer in failing raises as it is entered, and the exception is
\* swallowed
Deliver(obs, i, message, failing, dbg, st) ==
    IF i > Len(obs) THEN st
    ELSE LET invoked == [st EXCEPT !.delivered = Append(@, obs[i].oid)] IN
         IF obs[i].oid \in failing
         THEN Deliver(obs, i + 1, message, failing, dbg, invoked)
         ELSE Deliver(obs, i + 1, message, failing, dbg,
                      update(invoked, dbg, obs[i], obs, failing, message))

\* mutant: the first raising update ends the loop and reaches the caller
notify_observers_abort(obs, lg, message, failing, dbg, g) ==
    LET bad == {i \in 1..Len(obs) : obs[i].oid \in failing}
        k == IF bad = {} THEN Len(obs)
             ELSE CHOOSE i \in bad : \A j \in bad : i <= j
        st == Deliver(SubSeq(obs, 1, k), 1, message, failing, dbg,
                      [FanOut(g, log(lg, <<"Broadcast: ">> \o message))
                          EXCEPT !.nlog = 1])
    IN  [logs |-> st.logs, nlog |-> st.nlog, g |-> st.g,
         delivered |-> st.delivered, raised |-> bad # {}]

notify_observers(obs, lg, message, failing, dbg, g) ==
    LET st == Deliver(obs, 1, message, failing, dbg,
                      [FanOut(g, log(lg, <<"Broadcast: ">> \o message))
                          EXCEPT !.nlog = 1])
    IN  [logs |-> st.logs, nlog |-> st.nlog, g |-> st.g,
         delivered |-> st.delivered, raised |-> st.raised]

Oids(obs) == {obs[i].oid : i \in 1..Len(obs)}

\* notify_observers(message) while the update of the observers of one of
\* the sets in failings raises
NotifyObserversFailing(messages, dbgs, failings) ==
    \E message \in messages, dbg \in dbgs, failing \in failings :
        LET r == notify_observers(observers, logs, message, failing, dbg,
                                  GateStart) IN
        /\ logCalls < MaxNotify
        /\ logs' = r.logs
        /\ logCalls' = logCalls + r.nlog
        /\ GateDone(r.g)
        /\ last' = [op |-> "notify_observers", ok |-> ~r.raised,
                    message |-> message, failing |-> failing,
                    delivered |-> r.delivered, raised |-> r.raised,
                    nlog |-> r.nlog, gate |-> r.g.calls]
        /\ UNCHANGED <<bankVars, slotVars, obsVars>>

NotifyObservers(messages, dbgs) ==
    NotifyObserversFailing(messages, dbgs, SUBSET Oids(observers))

\* add_observer called with a new observer object
AddObserver ==
    \E observer \in {GUIObserver(nextOid), MailObserver(nextOid, MAIL1),
                     Resident(nextOid, Str("text"), Str("text"), MAIL1,
                              Str("text"), P1)} :
        /\ Len(observers) < MaxFanout
        /\ observers' = add_observer(observers, observer)
        /\ nextOid' = nextOid + 1
        /\ last' = [op |-> "add_observer", ok |-> TRUE, gate |-> <<>>]
        /\ UNCHANGED <<gateVars, bankVars, slotVars, logVars>>

Notify == NotifyObservers({Str("text"), TOO_LONG}, {FALSE})

NextObs == AddObserver \/ Notify

SpecObs == Init /\ [][NextObs]_vars

----------------------------------------------------------------------------
(* The user directory under registration, login and profile edits *)

\* users_db.pop(old_phone); record.resident.phone = new_phone;
\* users_db[new_phone] = record
Rekey(users, old_phone, new_phone) ==
    LET record == [users[old_phone] EXCEPT !.resident.phone = new_phone] IN
    [p \in (DOMAIN users \ {old_phone}) \cup {new_phone} |->
        IF p = new_phone THEN record ELSE users[p]]

\* save() of the profile editor, for the logged-in user whose record is
\* stored under the key current: the directory it leaves
save(users, current, name, surname, email, address, new_phone) ==
    LET edited == [users[current].resident EXCEPT
                       !.name = name, !.surname = surname,
                       !.email = email, !.address = address]
        users1 == [users EXCEPT ![current].resident = edited]
        old_phone == edited.phone
    IN  IF new_phone # old_phone /\ old_phone \in DOMAIN users1
        THEN Rekey(users1, old_phone, new_phone)
        ELSE users1

\* the Resident objects in the registry are the ones of the directory
Aliased(obs, users) ==
    [i \in DOMAIN obs |->
        IF \E p \in DOMAIN users : users[p].resident.oid = obs[i].oid
        THEN (CHOOSE r \in {users[p].resident : p \in DOMAIN users} :
                 r.oid = obs[i].oid)
        ELSE obs[i]]

\* the profile editor saved by a logged-in user (login refuses honeypots)
SaveProfile(names, emails, phones) ==
    \E current \in DOMAIN authorized_users, name \in names,
       email \in emails, new_phone \in phones :
        LET resident == authorized_users[current].resident
            users == save(authorized_users, current, name, resident.surname,
                          email, resident.address, new_phone)
        IN
        /\ ~authorized_users[current].is_honeypot
        /\ resident.phone = current
        /\ authorized_users' = users
        /\ observers' = Aliased(observers, users)
        /\ last' = [op |-> "save_profile", ok |-> TRUE,
                    a |-> [old_phone |-> current, new_phone |-> new_phone,
                           oid |-> resident.oid],
                    gate |-> <<>>]
        /\ UNCHANGED <<gateVars, slotVars, logVars, nextOid>>

RegisterAny ==
    Register({TC1, TC2}, {Str("text")}, {MAIL1}, {P1, HONEYPOT_PHONE}, {"s1"})

LoginAny == Login({P1, HONEYPOT_PHONE}, {"1234", "123456"}, {FALSE})

NextDir == RegisterAny \/ LoginAny

SpecDir == Init /\ [][NextDir]_vars

SaveAny == SaveProfile({Str("text")}, {MAIL1}, {P1, P2, P3})

NextProfile == SaveAny \/ LoadMoney

SpecProfile == InitBank /\ [][NextProfile]_vars

----------------------------------------------------------------------------
(* The home system of a resident *)

\* SmartHomeSystem._log(msg) at time t: the entry is the message under its
\* timestamp; without a sink the message goes to the console
_log(home, t, msg) ==
    [home EXCEPT !.history_logs =
        Append(IF Len(@) > HOME_CAP THEN Tail(@) ELSE @, <<t, msg>>)]

ACCESS_DENIED == <<"Access Denied: Unauthorized Operation.">>

\* mutant: the history is handed to every requester
get_logs_secure_open(home, requester_phone) == home.history_logs

get_logs_secure(home, requester_phone) ==
    IF requester_phone = home.owner_phone THEN home.history_logs
    ELSE ACCESS_DENIED

Home(p) == authorized_users[p].resident.home_system

\* the event number of the next _log call on a home
NextEvent(home) ==
    IF home.history_logs = <<>> THEN 1
    ELSE home.history_logs[Len(home.history_logs)][2] + 1

\* a routine of the home of a user in owners (morning_routines,
\* turn_on_lights, ...): one _log call, whose message carries its number;
\* the message goes to the sink if one is set, and the sink of the
\* dashboard notifies the observers of it
HomeLog(owners) ==
    \E p \in owners \cap DOMAIN authorized_users :
        LET users == [authorized_users EXCEPT ![p].resident.home_system =
                         _log(@, now, NextEvent(@))]
            registry == Aliased(observers, users)
            r == notify_observers(registry, logs, <<"HOME: ", "text">>, {},
                                  FALSE, GateStart)
        IN
        /\ NextEvent(Home(p)) <= MaxHomeLog
        /\ authorized_users' = users
        /\ observers' = registry
        /\ IF Home(p).log_callback
           THEN /\ logs' = r.logs
                /\ logCalls' = logCalls + r.nlog
                /\ GateDone(r.g)
                /\ last' = [op |-> "_log", ok |-> TRUE, owner |-> p,
                            sink |-> TRUE, delivered |-> r.delivered,
                            nlog |-> r.nlog, gate |-> r.g.calls]
           ELSE /\ last' = [op |-> "_log", ok |-> TRUE, owner |-> p,
                            sink |-> FALSE, gate |-> <<>>]
                /\ UNCHANGED <<gateVars, logVars>>
        /\ UNCHANGED <<slotVars, nextOid>>

\* get_logs_secure(requester_phone) on the home of a user
ReadLogs(requesters) ==
    \E p \in DOMAIN authorized_users, requester_phone \in requesters :
        /\ last' = [op |-> "get_logs_secure", ok |-> TRUE, owner |-> p,
                    requester_phone |-> requester_phone,
                    result |-> get_logs_secure(Home(p), requester_phone),
                    gate |-> <<>>]
        /\ UNCHANGED <<gateVars, bankVars, slotVars, obsVars, logVars>>

\* the state after P1 and P2 have registered and HOME_CAP - 100 routines of
\* the home of P1 have run at time 0: none of them finds the history above
\* HOME_CAP, so each one only appends
InitHome ==
    LET users == [p \in {HONEYPOT_PHONE, P1, P2} |->
                     IF p = P1 THEN RegisteredRecord(3, TC1, P1)
                     ELSE IF p = P2 THEN RegisteredRecord(5, TC2, P2)
                     ELSE HoneypotRecord]
        filled == [users EXCEPT ![P1].resident.home_system.history_logs =
                      [i \in 1..(HOME_CAP - 100) |-> <<0, i>>]]
    IN
    /\ now = 0
    /\ threads = [w \in Workers |-> NoThread]
    /\ request_history =
           [i \in Identities |->
               IF i = Str("guest") THEN <<0, 0>>
               ELSE IF i \in {P1, P2} THEN <<0>> ELSE <<>>]
    /\ accepted = request_history
    /\ authorized_users = filled
    /\ observers = Aliased(<<Authority(1, "PublicSecurityAuthority"),
                             Authority(2, "PublicUtilityService"),
                             RegisteredRecord(3, TC1, P1).resident,
                             MailObserver(4, MAIL1),
                             RegisteredRecord(5, TC2, P2).resident,
                             MailObserver(6, MAIL1)>>, filled)
    /\ nextOid = 7
    /\ logs = <<>>
    /\ logCalls = 0
    /\ current_command = <<>>
    /\ lastSet = <<>>
    /\ replaced = <<>>
    /\ slotRuns = 0
    /\ last = [op |-> "_log", ok |-> TRUE, owner |-> P1, gate |-> <<>>]

HomeRoutine == HomeLog({P1})

ReadAny == ReadLogs({P1, P2})

NextHome == HomeRoutine \/ ReadAny

SpecHome == InitHome /\ [][NextHome]_vars

----------------------------------------------------------------------------
(* The observer registry near its cap *)

\* the admin page opened: add_observer(GUIObserver(...))
AdminObserver ==
    /\ nextOid <= MaxAdmin
    /\ observers' = add_observer(observers, GUIObserver(nextOid))
    /\ nextOid' = nextOid + 1
    /\ last' = [op |-> "add_observer", ok |-> TRUE, gate |-> <<>>]
    /\ UNCHANGED <<gateVars, bankVars, slotVars, logVars>>

\* the state after the admin page was opened OBSERVER_CAP - 5 times from
\* Init: the registry holds the two authorities and as many GUIObservers,
\* OBSERVER_CAP - 3 observers in all
InitRegistry ==
    /\ now = 0
    /\ threads = [w \in Workers |-> NoThread]
    /\ request_history = [i \in Identities |-> <<>>]
    /\ authorized_users = [p \in {HONEYPOT_PHONE} |-> HoneypotRecord]
    /\ observers = [i \in 1..(OBSERVER_CAP - 3) |->
                       IF i = 1 THEN Authority(1, "PublicSecurityAuthority")
                       ELSE IF i = 2 THEN Authority(2, "PublicUtilityService")
                       ELSE GUIObserver(i)]
    /\ logs = <<>>
    /\ current_command = <<>>
    /\ nextOid = OBSERVER_CAP - 2
    /\ logCalls = 0
    /\ accepted = [i \in Identities |-> <<>>]
    /\ lastSet = <<>>
    /\ replaced = <<>>
    /\ slotRuns = 0
    /\ last = [op |-> "add_observer", ok |-> TRUE, gate |-> <<>>]

SpecRegistry == InitRegistry /\ [][AdminObserver]_vars

SpecRegistryFromEmpty == Init /\ [][AdminObserver]_vars

----------------------------------------------------------------------------
(* The scenario of a new user: register, login, load, pay *)

ScenarioRegister == Register({TC1}, {Str("text")}, {MAIL1}, {P1}, {"s1"})

ScenarioLogin == Login({P1}, {"1234"}, {FALSE})

ScenarioLoad ==
    LoadMoneyOf({LoadReq("Fiat", P1, 1), LoadReq("Fiat", P1, LOAD_LIMIT)})

ScenarioPay ==
    PayBillOf({PayReq("Fiat", P1, 1, EmptyDict),
               PayReq("Fiat", P1, LOAD_LIMIT, EmptyDict)})

NextScenario ==
    ScenarioRegister \/ ScenarioLogin \/ ScenarioLoad \/ ScenarioPay

SpecScenario == Init /\ [][NextScenario]_vars

----------------------------------------------------------------------------
(* The admin page: the listing and the search of the directory *)

SearchAny ==
    SearchUsers({<<>>, Str("admin"), Str("text"), HONEYPOT_PHONE, P1,
                 INJECTION}, {FALSE})

NextAdmin == ScenarioRegister \/ SearchAny \/ GetAllUsers

SpecAdmin == Init /\ [][NextAdmin]_vars

----------------------------------------------------------------------------
(* The email-report worker: send_mail_report_threaded starts a thread that  *)
(* runs send_logs_via_mail while the main thread goes on. No lock is taken, *)
(* so the thread can be suspended between any two statements of the         *)
(* check_security call it makes; the steps below are those that read or     *)
(* write the shared ledger.                                                 *)

\* the body send_logs_via_mail builds from the last 50 lines of the log
ReportBody(name, logs_) ==
    <<"Dear ">> \o name \o <<"Report">>
        \o [i \in 1..Len(LastN(logs_, 50)) |-> "log line"]

Running(w) == threads[w].pc # "idle"

Finish(w, ok, msg) ==
    /\ threads' = [threads EXCEPT ![w] = NoThread]
    /\ last' = [op |-> "send_logs_via_mail", ok |-> ok, msg |-> msg,
                thread |-> w, gate |-> <<>>]

\* the thread starts and runs up to the rate limiter of check_security:
\* the read of the log, the body, the checks of the body, time.time()
StartReport(phones, dbgs) ==
    \E w \in Workers, p \in phones \cap DOMAIN authorized_users,
       dbg \in dbgs :
        LET resident == authorized_users[p].resident
            logs_ == get_logs_secure(resident.home_system, resident.phone)
            body == ReportBody(resident.name, logs_)
            started == Cardinality({v \in Workers : Running(v)})
        IN
        /\ ~Running(w)
        /\ Len(accepted[resident.email]) + started < MaxReports
        /\ IF logs_ = <<>> \/ logs_ = ACCESS_DENIED
           THEN Finish(w, FALSE, "Access to logs denied.")
           ELSE IF dbg
           THEN Finish(w, FALSE, "System cannot be run in debug mode.")
           ELSE IF StrLen(body) > MAX_INPUT_LENGTH
           THEN Finish(w, FALSE, "Data size is too large.")
           ELSE IF prevent_sql_injection(body) # ReplaceQuotes(body)
           THEN Finish(w, FALSE, "Invalid characters detected.")
           ELSE /\ threads' = [threads EXCEPT ![w] =
                       [pc |-> "prune", user_id |-> resident.email,
                        current_time |-> now, pruned |-> <<>>]]
                /\ last' = [op |-> "send_mail_report_threaded", ok |-> TRUE,
                            thread |-> w, gate |-> <<>>]
        /\ UNCHANGED <<now, request_history, accepted, bankVars, slotVars,
                       obsVars, logVars>>

\* the list comprehension over request_history[user_id]
WorkerPrune ==
    \E w \in Workers :
        /\ threads[w].pc = "prune"
        /\ threads' = [threads EXCEPT ![w].pc = "store",
                          ![w].pruned = Prune(request_history[threads[w].user_id],
                                              threads[w].current_time)]
        /\ last' = [op |-> "worker_prune", ok |-> TRUE, thread |-> w,
                    gate |-> <<>>]
        /\ UNCHANGED <<now, request_history, accepted, bankVars, slotVars,
                       obsVars, logVars>>

\* request_history[user_id] = the list just built
WorkerStore ==
    \E w \in Workers :
        /\ threads[w].pc = "store"
        /\ request_history' = [request_history EXCEPT
                                  ![threads[w].user_id] = threads[w].pruned]
        /\ threads' = [threads EXCEPT ![w].pc = "test"]
        /\ last' = [op |-> "worker_store", ok |-> TRUE, thread |-> w,
                    gate |-> <<>>]
        /\ UNCHANGED <<now, accepted, bankVars, slotVars, obsVars, logVars>>

\* if len(request_history[user_id]) >= MAX_REQUESTS_PER_WINDOW: refuse
WorkerTest ==
    \E w \in Workers :
        /\ threads[w].pc = "test"
        /\ IF RateLimited(request_history[threads[w].user_id])
           THEN Finish(w, FALSE,
                       "You have sent too many requests. Please wait.")
           ELSE /\ threads' = [threads EXCEPT ![w].pc = "append"]
                /\ last' = [op |-> "worker_test", ok |-> TRUE, thread |-> w,
                            gate |-> <<>>]
        /\ UNCHANGED <<now, request_history, accepted, bankVars, slotVars,
                       obsVars, logVars>>

\* request_history[user_id].append(current_time); the mail is sent
WorkerAppend ==
    \E w \in Workers :
        /\ threads[w].pc = "append"
        /\ request_history' = [request_history EXCEPT
                                  ![threads[w].user_id] =
                                      Append(@, threads[w].current_time)]
        /\ accepted' = [accepted EXCEPT ![threads[w].user_id] =
                           Append(@, threads[w].current_time)]
        /\ Finish(w, TRUE, "Safe")
        /\ UNCHANGED <<now, bankVars, slotVars, obsVars, logVars>>

\* main-thread operations beside the workers: a routine of the home, which
\* gives the report its first line, and a broadcast, which mails the
\* registered addresses
ReportRoutine ==
    /\ NextEvent(Home(P1)) <= MaxReportLog
    /\ HomeLog({P1})

Broadcast == NotifyObservers({Str("text")}, {FALSE})

NextWorker ==
    \/ ReportRoutine
    \/ Broadcast
    \/ StartReport({P1}, {FALSE})
    \/ WorkerPrune
    \/ WorkerStore
    \/ WorkerTest
    \/ WorkerAppend

SpecWorker == InitBank /\ [][NextWorker]_vars

----------------------------------------------------------------------------
(* Commands of every kind, run from the slot *)

BillCommands ==
    {PayBillCommand("Fiat", 1, ELECTRICITY, P1, EmptyDict, ""),
     PayBillCommand("Fiat", 1, PARKING, P1, EmptyDict, "A1"),
     PayBillCommand("Fiat", 2, PARKING, P1, CardDetails, "A1"),
     PayBillCommand("Crypto", 1, PARKING, P1, WalletDetails, "A1"),
     PayBillCommand("Crypto", 1, Str("parking"), P1, EmptyDict, "A1"),
     PayBillCommand("Fiat", 1, <<"Parking", "text">>, P1, EmptyDict, "A1"),
     PayBillCommand("Fiat", 0, PARKING, P1, CardDetails, "A1"),
     PayBillCommand("Crypto", 1, PARKING, P3, WalletDetails, "A1")}

SetBill == SetCommandOf(BillCommands)

LoadOne == LoadMoneyOf({LoadReq("Fiat", P1, 1)})

NextCommand == LoadOne \/ SetBill \/ ExecuteCommand

SpecCommand == InitBank /\ [][NextCommand]_vars

----------------------------------------------------------------------------
(* Password hashing, on passwords and salts of every shape *)

Passwords == {"", "1234", "123456", "12345", ":"}

\* salts as secrets.token_hex generates them, and salts a caller can pass
HexSalts == {Salt("s0"), Salt("s1"), Salt("s0") \o Salt("s1")}

GivenSalts == HexSalts \cup {<<>>, <<<<"s0">>, COLON, <<"s1">>>>}

\* stored values that are not of the form salt:hash
Malformed ==
    {<<>>, Salt("s0"), <<sha256(<<"s0", "1234">>)>>,
     hash_password("1234", Salt("s0")) \o <<COLON>>,
     <<COLON>> \o hash_password("1234", Salt("s0"))}

HashPassword ==
    /\ \E plain_password \in Passwords, salt \in GivenSalts :
           last' = [op |-> "hash_password", ok |-> TRUE,
                    plain_password |-> plain_password, salt |-> salt,
                    result |-> hash_password(plain_password, salt),
                    gate |-> <<>>]
    /\ UNCHANGED <<gateVars, bankVars, slotVars, obsVars, logVars>>

\* verify_password on a value that hash_password made
VerifyPassword ==
    /\ \E plain_password \in Passwords, salt \in GivenSalts,
          provided_password \in Passwords :
           LET stored_password == hash_password(plain_password, salt) IN
           last' = [op |-> "verify_password", ok |-> TRUE,
                    stored_password |-> stored_password,
                    plain_password |-> plain_password, salt |-> salt,
                    provided_password |-> provided_password,
                    result |-> verify_password(stored_password,
                                               provided_password),
                    gate |-> <<>>]
    /\ UNCHANGED <<gateVars, bankVars, slotVars, obsVars, logVars>>

\* verify_password on a value that is not of the form salt:hash
VerifyMalformed ==
    /\ \E stored_password \in Malformed, provided_password \in Passwords :
           last' = [op |-> "verify_malformed", ok |-> TRUE,
                    stored_password |-> stored_password,
                    provided_password |-> provided_password,
                    result |-> verify_password(stored_password,
                                               provided_password),
                    gate |-> <<>>]
    /\ UNCHANGED <<gateVars, bankVars, slotVars, obsVars, logVars>>

NextPassword == HashPassword \/ VerifyPassword \/ VerifyMalformed

SpecPassword == Init /\ [][NextPassword]_vars

----------------------------------------------------------------------------
(* The gate on inputs of every kind: searches by the guest identity *)

QUOTED == <<"text", "'">>
TOO_LONG_INJECTION == <<"PAD", "text", ";">>

ValidateSearch ==
    SearchUsers({<<>>, Str("text"), QUOTED, INJECTION, Str("SELECT"),
                 TOO_LONG, TOO_LONG_INJECTION}, BOOLEAN)

NextValidate == Tick \/ ValidateSearch

SpecValidate == Init /\ [][NextValidate]_vars

----------------------------------------------------------------------------
(* Registrations and logins of two users beside searches *)

SearchText == SearchUsers({Str("text")}, {FALSE})

LoginTwo == Login({P1, P2}, {"1234"}, {FALSE})

NextIsolation == RegisterTwo \/ LoginTwo \/ SearchText

SpecIsolation == Init /\ [][NextIsolation]_vars

----------------------------------------------------------------------------
(* The dashboard: opening it sets the sink of the user's home and installs  *)
(* the observer of its log list                                             *)

\* mutant: the observer of the dashboard is added to the registry
initialize_dashboard_keep(obs, gui_observer) == Append(obs, gui_observer)

\* self.app.controller.observers = [GUIObserver(self.log_list)]
initialize_dashboard(obs, gui_observer) == <<gui_observer>>

\* show_frame(DashboardPage) for the user logged in as one of phones
InitializeDashboard(phones) ==
    \E p \in phones \cap DOMAIN authorized_users :
        LET users == [authorized_users EXCEPT
                         ![p].resident.home_system.log_callback = TRUE] IN
        /\ ~authorized_users[p].is_honeypot
        /\ nextOid <= MaxOid
        /\ authorized_users' = users
        /\ observers' = initialize_dashboard(Aliased(observers, users),
                                             GUIObserver(nextOid))
        /\ nextOid' = nextOid + 1
        /\ last' = [op |-> "initialize_dashboard", ok |-> TRUE,
                    a |-> [phone |-> p], gate |-> <<>>]
        /\ UNCHANGED <<gateVars, slotVars, logVars>>

OpenDashboard == InitializeDashboard({P1, P2})

DashboardRoutine ==
    /\ P1 \in DOMAIN authorized_users
    /\ NextEvent(Home(P1)) <= MaxReportLog
    /\ HomeLog({P1})

\* the registration form filled in by the first and by the second user
RegisterFirst == Register({TC1}, {Str("text")}, {MAIL1}, {P1}, {"s1"})

RegisterSecond == Register({TC2}, {Str("text")}, {MAIL1}, {P2}, {"s1"})

\* an announcement while no observer, or every observer, raises
DashboardBroadcast ==
    NotifyObserversFailing({Str("text")}, {FALSE}, {{}, Oids(observers)})

NextDashboard ==
    \/ RegisterFirst
    \/ RegisterSecond
    \/ OpenDashboard
    \/ DashboardRoutine
    \/ DashboardBroadcast

SpecDashboard == Init /\ [][NextDashboard]_vars

----------------------------------------------------------------------------
(* Properties of the gate *)

InWindow(times, t) ==
    Cardinality({k \in 1..Len(times) : t - times[k] < RATE_LIMIT_WINDOW})

Benign == {P1, P2, Str("text"), Str("admin"), Str("register"), TC1, TC2}

TooMany == "You have sent too many requests. Please wait."

\* a gate call with a harmless input and no debugger is accepted iff fewer
\* than 5 requests of its identity were accepted in the 60 seconds before it
GateFollowsWindow ==
    \A i \in 1..Len(last'.gate) :
        LET c == last'.gate[i] IN
        Len(last'.gate) = 1 /\ ~c.dbg /\ c.input \in Benign
            => /\ c.ok <=> InWindow(accepted[c.user_id], now)
                               < MAX_REQUESTS_PER_WINDOW
               /\ ~c.ok => c.msg = TooMany

\* C5: of 6 otherwise valid requests of one identity within 60 seconds the
\* first 5 are accepted and the 6th is refused as rate-limited, and a
\* request made once 60 seconds have passed since the oldest accepted one is
\* accepted again, whatever was refused in between: a request is accepted
\* iff fewer than 5 requests of the identity were accepted in the last 60
\* seconds.
C5_SlidingWindow == [][GateFollowsWindow]_vars

\* five logins accepted at time 0, and a sixth accepted at time 60
C5_Witness ==
    /\ last.op = "login" /\ last.gate[1].ok
    /\ now = RATE_LIMIT_WINDOW
    /\ accepted[P1] = <<0, 0, 0, 0, 0, RATE_LIMIT_WINDOW>>

Fresh(user_id) ==
    SelectSeq(request_history[user_id],
              LAMBDA t : now - t < RATE_LIMIT_WINDOW)

ReachedLimiter(c) == c.msg \in {"Safe", TooMany}

\* what a rate-limit check leaves in the ledger entry of its identity
LedgerAfterCheck ==
    \A i \in 1..Len(last'.gate) :
        LET c == last'.gate[i]
            h == request_history'[c.user_id] IN
        ReachedLimiter(c) =>
            /\ Len(h) <= MAX_REQUESTS_PER_WINDOW
            /\ \A k \in 1..Len(h) : now' - h[k] < RATE_LIMIT_WINDOW
            /\ c.ok => h = Append(Fresh(c.user_id), now)
            /\ ~c.ok => h = Fresh(c.user_id)

Times == 0..MaxTime

\* in any 60-second interval at most 5 requests of an identity are accepted
WindowBound ==
    \A id \in Identities : \A t0 \in Times :
        Cardinality({k \in 1..Len(accepted[id]) :
                        /\ t0 <= accepted[id][k]
                        /\ accepted[id][k] < t0 + RATE_LIMIT_WINDOW})
            <= MAX_REQUESTS_PER_WINDOW

\* C6: after every rate-limit check the identity's ledger entry holds at
\* most 5 timestamps, all less than 60 seconds old, and the timestamp of the
\* request was added iff the request was allowed; so at most 5 requests of
\* an identity are accepted in any 60-second interval.
C6_LedgerWindow == []WindowBound /\ [][LedgerAfterCheck]_vars

\* a login refused as rate-limited at time 30 on a ledger holding requests
\* of time 0 and of time 30
C6_Witness ==
    /\ last.op = "login" /\ ~last.gate[1].ok /\ last.gate[1].msg = TooMany
    /\ now = 30
    /\ Len(request_history[P1]) = MAX_REQUESTS_PER_WINDOW
    /\ request_history[P1][1] = 0
    /\ request_history[P1][MAX_REQUESTS_PER_WINDOW] = 30

(* Properties of the log and of the fan-out *)

\* C4: no operation changes the user directory, a balance or history, the
\* observer registry or the controller log unless a gate call made by that
\* operation accepted.
C4_GateGuardsMutation ==
    [][(\/ authorized_users' # authorized_users
        \/ observers' # observers
        \/ logs' # logs)
       => \E i \in 1..Len(last'.gate) : last'.gate[i].ok]_vars

\* C7: after 5001 appends to an empty log buffer it holds at most 4001
\* entries; the buffer never holds more than 5000 entries; and the entry
\* logged last is the last element.
C7_LogBufferBounded ==
    /\ logCalls = LOG_CAP + 1 => Len(logs) <= LOG_KEEP + 1
    /\ Len(logs) <= LOG_CAP
    /\ logs # <<>> => logs[Len(logs)] = logCalls

RegistrationOrder(obs) == [i \in 1..Len(obs) |-> obs[i].oid]

\* C10: one notify_observers call invokes update once on each registered
\* observer, in registration order, whichever updates raise, and no failure
\* reaches the caller.
C10_FanOutToAll ==
    [][last'.op = "notify_observers"
       => /\ last'.delivered = RegistrationOrder(observers)
          /\ ~last'.raised]_vars

\* a notification in which an observer raised and a later one was invoked
C10_Witness ==
    /\ last.op = "notify_observers"
    /\ Len(observers) >= 3
    /\ observers[2].oid \in last.failing
    /\ last.delivered[Len(observers)] = observers[Len(observers)].oid
    /\ \E i \in 1..Len(observers) : observers[i].kind = "MailObserver"

(* Properties of the user directory *)

IsPrefix(s, t) == Len(s) <= Len(t) /\ SubSeq(t, 1, Len(s)) = s

\* the record stored under p is still in the directory after the step, as
\* the same object, with its identity number, password and balance history
RecordKept(p) ==
    \E q \in DOMAIN authorized_users' :
        LET old == authorized_users[p]
            new == authorized_users'[q] IN
        /\ new.resident.oid = old.resident.oid
        /\ new.tc_no = old.tc_no /\ new.password = old.password
        /\ new.is_honeypot = old.is_honeypot
        /\ IsPrefix(old.history, new.history)

\* C11: a record, once in the directory, is never deleted or replaced:
\* every step keeps every record, the honeypot record included, also a
\* register with a phone that is already a key.
C11_RecordsNeverReplaced ==
    [][\A p \in DOMAIN authorized_users : RecordKept(p)]_vars

\* C12: a login with the honeypot account's phone number never grants
\* access, whatever the password.
C12_HoneypotNeverGrants ==
    last.op = "login" /\ last.a.phone = HONEYPOT_PHONE => ~last.ok

\* C14: a profile save that changes the phone from old to new leaves the
\* same record under the new key with resident.phone = new, no record under
\* the old key, every other record unchanged and the number of records
\* preserved, also when new is already the key of another record.
C14_RekeyIsAMove ==
    [][last'.op = "save_profile"
        /\ last'.a.old_phone # last'.a.new_phone
       => LET old == last'.a.old_phone
              new == last'.a.new_phone IN
          /\ new \in DOMAIN authorized_users'
          /\ old \notin DOMAIN authorized_users'
          /\ authorized_users'[new].resident.phone = new
          /\ authorized_users'[new].resident.oid = last'.a.oid
          /\ authorized_users'[new].balance = authorized_users[old].balance
          /\ authorized_users'[new].history = authorized_users[old].history
          /\ authorized_users'[new].password = authorized_users[old].password
          /\ \A p \in DOMAIN authorized_users \ {old} :
                 /\ p \in DOMAIN authorized_users'
                 /\ authorized_users'[p] = authorized_users[p]
          /\ Cardinality(DOMAIN authorized_users')
                 = Cardinality(DOMAIN authorized_users)]_vars

(* Properties of the home system *)

\* C13: get_logs_secure returns the whole history iff the requester is the
\* owner of the home; any other requester gets exactly the one-element
\* access-denied answer (a fixed sentence, no entry of the history); the
\* history is not changed.
C13_LogsOnlyToOwner ==
    [][last'.op = "get_logs_secure"
       => LET home == Home(last'.owner) IN
          /\ last'.requester_phone = home.owner_phone
                 => last'.result = home.history_logs
          /\ last'.requester_phone # home.owner_phone
                 => /\ last'.result = ACCESS_DENIED
                    /\ Len(last'.result) = 1
          /\ authorized_users' = authorized_users]_vars

\* a stranger asked for a history that is not empty and was refused
C13_Witness ==
    /\ last.op = "get_logs_secure"
    /\ last.requester_phone # Home(last.owner).owner_phone
    /\ Home(last.owner).history_logs # <<>>
    /\ last.result = ACCESS_DENIED

\* C17: the history of a home never holds more than 1000 entries, and it is
\* the most recent events in the order they were logged.
C17_HomeLogBounded ==
    \A p \in DOMAIN authorized_users :
        LET h == Home(p).history_logs IN
        /\ Len(h) <= HOME_CAP
        /\ \A i \in 1..(Len(h) - 1) : h[i + 1][2] = h[i][2] + 1

(* Properties of the registry cap *)

\* C16: the observer registry never holds more than 5000 entries.
C16_RegistryBounded == Len(observers) <= OBSERVER_CAP

(* More properties of the banking services *)

\* C18: for a registered user and amount > 0, a pay_bill whose details
\* carry the variant's instrument (card_no for Fiat, wallet_id for Crypto)
\* succeeds whatever the balance, leaves the balance unchanged and appends
\* one history entry of the amount; without the instrument a successful
\* payment deducts exactly the amount and a failed one changes nothing.
C18_InstrumentSparesBalance ==
    [][IsPayStep /\ Registered(last'.user_id) /\ last'.amount > 0
       => LET u == last'.user_id
              old == authorized_users[u]
              new == authorized_users'[u]
              one == /\ Len(new.history) = Len(old.history) + 1
                     /\ IsPrefix(old.history, new.history)
                     /\ new.history[Len(new.history)].amount = last'.amount
          IN
          /\ ~NoInstrument(last'.service, last'.details)
                 => last'.ok /\ new.balance = old.balance /\ one
          /\ NoInstrument(last'.service, last'.details) /\ last'.ok
                 => new.balance = old.balance - last'.amount /\ one
          /\ NoInstrument(last'.service, last'.details) /\ ~last'.ok
                 => new = old
          /\ \A p \in DOMAIN authorized_users \ {u} :
                 authorized_users'[p] = authorized_users[p]]_vars

\* a card payment accepted on an empty balance
C18_Witness ==
    /\ last.op = "pay_bill" /\ last.ok /\ last.service = "Fiat"
    /\ ~NoInstrument(last.service, last.details)
    /\ Balance(last.user_id) = 0
    /\ Len(History(last.user_id)) = 1

(* The scenario of a new user *)

\* the record under phone was made by register with this password
RegisteredWith(phone, password) ==
    /\ Registered(phone)
    /\ ~authorized_users[phone].is_honeypot
    /\ \E salt \in {"s0", "s1"} :
           authorized_users[phone].password = hash_password(password, Salt(salt))

\* a load of 0 < a <= 1,000,000 on the new record gives balance a, and a
\* payment of 0 < b <= balance without instrument gives balance - b and
\* says it was paid from the balance
ScenarioBank ==
    /\ IsLoadStep /\ Registered(last'.user_id)
       /\ Balance(last'.user_id) = 0
       /\ 0 < last'.amount /\ last'.amount <= LOAD_LIMIT
       => /\ last'.ok
          /\ authorized_users'[last'.user_id].balance = last'.amount
    /\ last'.op = "pay_bill" /\ Registered(last'.user_id)
       /\ NoInstrument(last'.service, last'.details)
       /\ 0 < last'.amount /\ last'.amount <= Balance(last'.user_id)
       => /\ last'.ok
          /\ authorized_users'[last'.user_id].balance
                 = Balance(last'.user_id) - last'.amount
          /\ last'.msg.text \in {"Paid from balance. Remaining",
                                 "Paid from balance."}

C20_SearchHidesHoneypot ==
    [][/\ last'.op = "search_users"
          => /\ last'.ok =>
                    \A e \in last'.result :
                        /\ e.phone \in DOMAIN authorized_users
                        /\ ~authorized_users[e.phone].is_honeypot
             /\ authorized_users' = authorized_users
       /\ last'.op = "get_all_users"
          => /\ {e.phone : e \in last'.result} = DOMAIN authorized_users
             /\ Cardinality(last'.result)
                    = Cardinality(DOMAIN authorized_users)
             /\ \A e \in last'.result :
                    e.honeypot_status # ""
                        <=> authorized_users[e.phone].is_honeypot
             /\ authorized_users' = authorized_users]_vars

\* a search for the honeypot's own name that the gate accepted, with a
\* registered user in the directory, returned nothing
C20_Witness ==
    /\ last.op = "search_users" /\ last.ok
    /\ last.query = Str("admin")
    /\ Registered(P1)
    /\ authorized_users[HONEYPOT_PHONE].is_honeypot
    /\ last.result = {}

(* Properties of the worker threads *)

NoWorkerRunning == \A w \in Workers : ~Running(w)

\* C15: all state-mutating operations run under one mutual exclusion, so
\* that under every interleaving of the email-report worker with the main
\* thread the ledger never loses an update (once no check is under way,
\* every request accepted in the last 60 seconds is in the ledger of its
\* identity) and never admits more than 5 requests of an identity in 60
\* seconds.
C15_LedgerRaceFree ==
    /\ \A id \in Identities :
           InWindow(accepted[id], now) <= MAX_REQUESTS_PER_WINDOW
    /\ NoWorkerRunning
           => \A id \in Identities :
                  Len(Fresh(id)) = InWindow(accepted[id], now)

(* Properties of the payment command *)

\* the bill type that reaches pay_bill when the command cmd is executed
BillKind(cmd) ==
    IF cmd.bill_type = PARKING THEN ParkingAt(cmd.location)
    ELSE cmd.bill_type

\* C21: executing a command is the call of the captured service:
\* pay_parking(amount, location, user, details) when the bill type is
\* exactly "Parking" and pay_bill(amount, bill type, user, details)
\* otherwise; the (ok, message) returned and the change of balances and
\* histories are those of the one pay_bill call, which pay_parking makes
\* with the bill type "Parking (<location>)".
C21_ExecuteIsServiceCall ==
    [][last'.op = "execute_command" /\ last'.ran # <<>>
       => LET cmd == last'.ran[1]
              direct == pay_bill(cmd.service, authorized_users, cmd.amount,
                                 BillKind(cmd), cmd.user_id, cmd.details)
              call == last'.calls[1]
          IN  /\ Len(last'.calls) = 1
              /\ call.method = IF cmd.bill_type = PARKING
                               THEN "pay_parking" ELSE "pay_bill"
              /\ call.arg = IF cmd.bill_type = PARKING
                            THEN cmd.location ELSE cmd.bill_type
              /\ call.service = cmd.service /\ call.amount = cmd.amount
              /\ call.user_id = cmd.user_id /\ call.details = cmd.details
              /\ last'.ok = direct.ok /\ last'.msg = direct.msg
              /\ authorized_users' = direct.users]_vars

\* a parking command paid from a balance of 1 has just been executed
C21_Witness ==
    /\ last.op = "execute_command" /\ last.ok
    /\ last.ran # <<>> /\ last.ran[1].bill_type = PARKING
    /\ last.calls[1].method = "pay_parking"
    /\ last.ran[1].details = EmptyDict
    /\ Balance(P1) = 0
    /\ History(P1) = <<Entry("Deposit", 1), Entry("Balance Payment", 1)>>

(* Properties of password hashing *)

RoundTrip ==
    last.op = "verify_password"
        => (last.result <=> last.provided_password = last.plain_password)

MalformedIsFalse == last.op = "verify_malformed" => last.result = FALSE

IsBankStep ==
    last'.op \in {"load_money", "pay_bill", "pay_parking", "execute_command"}

\* the user a banking step was made for
Target ==
    IF last'.op = "execute_command" THEN last'.ran[1].user_id
    ELSE last'.user_id

\* the record of user p differs only by one entry added to its history and
\* by its balance
OneEntryAdded(p) ==
    LET old == authorized_users[p]
        new == authorized_users'[p] IN
    /\ Len(new.history) = Len(old.history) + 1
    /\ SubSeq(new.history, 1, Len(old.history)) = old.history
    /\ [new EXCEPT !.history = old.history, !.balance = old.balance] = old

\* C23: histories are append-only and follow the outcome: a load_money,
\* pay_bill, pay_parking or command execution that reports failure leaves
\* every balance and history as it was; one that reports success appends
\* exactly one entry to the history of the user it was made for, and
\* removes or reorders no entry and changes no other user's balance or
\* history.
C23_HistoryFollowsOutcome ==
    [][IsBankStep
       => IF last'.ok
          THEN /\ DOMAIN authorized_users' = DOMAIN authorized_users
               /\ Target \in DOMAIN authorized_users
               /\ OneEntryAdded(Target)
               /\ \A p \in DOMAIN authorized_users \ {Target} :
                      authorized_users'[p] = authorized_users[p]
          ELSE authorized_users' = authorized_users]_vars

\* a Crypto payment from the balance added a second entry to the history of
\* its user, and the history of the other user is still empty
C23_Witness ==
    /\ last.op = "pay_bill" /\ last.ok /\ last.service = "Crypto"
    /\ History(P1) = <<Entry("Crypto Deposit", LOAD_LIMIT + 1),
                       Entry("Balance Payment", 1)>>
    /\ History(P2) = <<>>

(* Properties of the order of the checks of the gate *)

Oversize(s) == StrLen(s) > MAX_INPUT_LENGTH

\* s holds one of the dangerous tokens, in any case of letters
HasToken(s) ==
    \E i \in 1..Len(s) : \E k \in 1..Len(sql_patterns) :
        Upper(s[i]) = sql_patterns[k]

WithinRate(c) == InWindow(accepted[c.user_id], now) < MAX_REQUESTS_PER_WINDOW

\* an input that is too long or holds a dangerous token is refused, and the
\* ledger is left as it was
BadInputNotCounted(c) ==
    Oversize(c.input) \/ HasToken(c.input)
        => ~c.ok /\ request_history' = request_history
                 /\ accepted' = accepted

\* C24: check_security checks the size first, then the tokens, then the
\* rate limit: an input longer than 3000 or with a dangerous token is
\* refused and leaves the ledger as it was, so it spends none of the 5
\* requests of its identity, and an input within the size and rate limits
\* is accepted iff it holds no dangerous token (the process not being run
\* under a debugger, which the gate refuses before any of these checks).
C24_ChecksInOrder ==
    [][\A i \in 1..Len(last'.gate) :
           LET c == last'.gate[i] IN
           Len(last'.gate) = 1
               => /\ BadInputNotCounted(c)
                  /\ ~c.dbg /\ Oversize(c.input)
                         => c.msg = "Data size is too large."
                  /\ ~c.dbg /\ ~Oversize(c.input) /\ HasToken(c.input)
                         => c.msg = "Invalid characters detected."
                  /\ ~c.dbg /\ ~Oversize(c.input) /\ WithinRate(c)
                         => (c.ok <=> ~HasToken(c.input))]_vars

\* a search with a dangerous token has just been refused for it, with four
\* accepted searches in the ledger and room for a fifth
C24_Witness ==
    /\ last.op = "search_users" /\ ~last.ok
    /\ last.msg = "Invalid characters detected."
    /\ last.query = INJECTION
    /\ request_history[Str("guest")] = <<0, 0, 0, 0>>
    /\ now = 0

(* Properties of the identities of the rate limit *)

RefusedAsRateLimited ==
    \E i \in 1..Len(last'.gate) : last'.gate[i].msg = TooMany

\* C25: the rate limit is kept per identity: a register or login for phone
\* P is refused as rate-limited only for requests made for identity P (5 of
\* them accepted in the last 60 seconds), never for registrations, logins
\* or searches made for other identities.
C25_RateLimitPerIdentity ==
    [][last'.op \in {"register", "login"} /\ RefusedAsRateLimited
       => InWindow(accepted[last'.a.phone], now)
              >= MAX_REQUESTS_PER_WINDOW]_vars

(* Properties of the owner of a home *)

\* C26: in every reachable state the phone of each Resident is the owner
\* identity of its home system, so that the resident reading the log of its
\* home with its current phone is never answered with the access-denied
\* sentinel, also after a profile edit that changes the phone and rekeys
\* the directory.
C26_ResidentOwnsHome ==
    \A p \in DOMAIN authorized_users :
        LET resident == authorized_users[p].resident IN
        /\ resident.phone = resident.home_system.owner_phone
        /\ get_logs_secure(resident.home_system, resident.phone)
               # ACCESS_DENIED

(* Properties of the registry beside the dashboard *)

\* C27: an observer stays subscribed once added: no operation removes an
\* observer from the registry, so every observer that add_observer accepted
\* is invoked by every later notify_observers call, also by broadcasts made
\* after a user has logged in and opened the dashboard.
C27_ObserversStaySubscribed ==
    [][/\ Oids(observers) \subseteq Oids(observers')
       /\ last'.op = "notify_observers"
              => \A i \in 1..Len(observers) :
                     \E k \in 1..Len(last'.delivered) :
                         last'.delivered[k] = observers[i].oid]_vars

\* a step in which notify_observers ran: a broadcast, or a routine of a
\* home whose sink is the dashboard
FanOutStep ==
    \/ last'.op = "notify_observers"
    \/ last'.op = "_log" /\ last'.sink

\* C28: every notify_observers call ends after one entry appended to the
\* log buffer and one invocation of each registered observer, also when
\* the sink of a Resident's home is the dashboard callback, which forwards
\* to notify_observers: a broadcast never re-enters the fan-out.
C28_FanOutNotReentered ==
    [][FanOutStep
       => /\ last'.nlog = 1
          /\ Len(logs') = Len(logs) + 1
          /\ SubSeq(logs', 1, Len(logs)) = logs
          /\ last'.delivered = RegistrationOrder(observers')]_vars

\* a broadcast has reached a Resident registered after the dashboard of a
\* user was opened, whose home has the dashboard callback as sink
C28_Witness ==
    /\ last.op = "notify_observers"
    /\ \E p \in DOMAIN authorized_users : Home(p).log_callback
    /\ \E i \in 1..Len(observers) :
           /\ observers[i].kind = "Resident"
           /\ \E k \in 1..Len(last.delivered) :
                  last.delivered[k] = observers[i].oid
    /\ \E i \in 1..Len(observers) : observers[i].kind = "GUIObserver"

====
